---- MODULE Spec2Model ----
(***************************************************************************)
(* A model of `hero` (src/src/main.rs): parse the command line, split the  *)
(* repository argument, build the API client from GITHUB_TOKEN, list the   *)
(* workflow's runs, fetch the jobs of the first run and print its steps.   *)
(*                                                                         *)
(* Strings whose content the program inspects (the repository argument,    *)
(* the token, the decimal form of a run id) are sequences of one-character *)
(* strings; strings the program only copies (names, statuses) are TLA+     *)
(* strings.  A JSON value is a record tagged with its JSON type; indexing  *)
(* a missing key yields null, as with serde_json.                          *)
(***************************************************************************)
EXTENDS Integers, Sequences, FiniteSets, TLC

\* ---------------------------------------------------------------- bounds

\* Longest repository argument drawn for the command line.
MaxArgLen == 3
\* Longest run collection a run-listing response carries.
MaxRuns == 20
\* Most jobs of a jobs response, and most steps of a job.
MaxJobs == 2
MaxSteps == 2

\* ------------------------------------------------------ program constants

\* `.take(10)`: the number of run entries the lister reads.
TakeRuns == 10
\* `per_page=10&page=1` of the run-listing URL.
PerPage == 10
Page == 1

\* Exit codes: `Ok(())` from main and clap's help or version, `Err` returned
\* from main, clap's usage error, a panic (expect/unwrap).
ExitOk == 0
ExitErr == 1
ExitUsage == 2
ExitPanic == 101

\* ------------------------------------------------------------ JSON values

JNull == [t |-> "null", s |-> "", n |-> 0]
JStr(x) == [t |-> "str", s |-> x, n |-> 0]
JInt(x) == [t |-> "int", s |-> "", n |-> x]

\* A JSON field holding the text of a timestamp; the text is kept as the
\* fields RFC 3339 writes (2024-01-DD T HH:MM:SS +OO:00).
JTime(d, h, m, sec, off) ==
    [t |-> "str", day |-> d, hour |-> h, minute |-> m, second |-> sec, offset |-> off]
JNoTime == [t |-> "null", day |-> 0, hour |-> 0, minute |-> 0, second |-> 0, offset |-> 0]

\* A JSON field that is an array of items, or anything else (absent, null, ...).
JArray(items) == [is_array |-> TRUE, items |-> items]
JNotArray == [is_array |-> FALSE, items |-> <<>>]

\* Value::as_str, Value::as_i64, Value::as_array: Some only for the right type.
as_str(v) == IF v.t = "str" THEN [some |-> TRUE, s |-> v.s] ELSE [some |-> FALSE, s |-> ""]
as_i64(v) == IF v.t = "int" THEN [some |-> TRUE, n |-> v.n] ELSE [some |-> FALSE, n |-> 0]
as_array(v) == [some |-> v.is_array, items |-> v.items]

\* ------------------------------------------------------------- to_string

DigitChars == <<"0", "1", "2", "3", "4", "5", "6", "7", "8", "9">>

RECURSIVE Digits(_)
Digits(n) ==
    IF n < 10 THEN <<DigitChars[n + 1]>>
    ELSE Digits(n \div 10) \o <<DigitChars[(n % 10) + 1]>>

\* i64::to_string: the decimal digits, with a leading '-' when negative.
to_string(n) == IF n < 0 THEN <<"-">> \o Digits(-n) ELSE Digits(n)

\* ------------------------------------------------------------ split_once

\* The positions of '/' in s.
SlashPositions(s) == {i \in 1..Len(s) : s[i] = "/"}

Min(S) == CHOOSE x \in S : \A y \in S : x <= y

\* str::split_once('/'): None without a '/', else the text before and the
\* text after the FIRST '/'.
split_once(s) ==
    IF SlashPositions(s) = {} THEN [some |-> FALSE, owner |-> <<>>, repository |-> <<>>]
    ELSE LET i == Min(SlashPositions(s))
         IN [some |-> TRUE,
             owner |-> SubSeq(s, 1, i - 1),
             repository |-> SubSeq(s, i + 1, Len(s))]

\* ------------------------------------------------- OffsetDateTime::parse

\* A parse that takes the local time for UTC, dropping the offset.
OffsetDateTime_parse_IgnoresOffset(v) ==
    IF v.day \in 1..31 /\ v.hour \in 0..23 /\ v.minute \in 0..59 /\ v.second \in 0..59
       /\ v.offset \in -23..23
    THEN [ok |-> TRUE,
          unix |-> (v.day - 1) * 86400 + v.hour * 3600 + v.minute * 60 + v.second]
    ELSE [ok |-> FALSE, unix |-> 0]

\* OffsetDateTime::parse(text, &Rfc3339): the instant the text denotes, in
\* seconds since 2024-01-01T00:00:00Z, or an error when a field is out of
\* range.  The local time is moved to UTC by subtracting the offset.
OffsetDateTime_parse(v) ==
    IF /\ v.day \in 1..31
       /\ v.hour \in 0..23
       /\ v.minute \in 0..59
       /\ v.second \in 0..59
       /\ v.offset \in -23..23
    THEN [ok |-> TRUE,
          unix |-> (v.day - 1) * 86400 + v.hour * 3600 + v.minute * 60
                   + v.second - v.offset * 3600]
    ELSE [ok |-> FALSE, unix |-> 0]

\* --------------------------------------------------------- console output

\* println!("runs: {:#?}", runs)
RunsLine(ids) == [kind |-> "runs", name |-> "", status |-> "", duration |-> 0, ids |-> ids]
\* println!("{}", job_name)
JobLine(name) == [kind |-> "job", name |-> name, status |-> "", duration |-> 0, ids |-> <<>>]
\* println!("    {}: {}, {}", step_name, step_status, step_duration); the
\* duration is a time::Duration of whole seconds.
StepLine(name, status, duration) ==
    [kind |-> "step", name |-> name, status |-> status, duration |-> duration, ids |-> <<>>]

\* ------------------------------------------------------ display_job_steps

Panicked(out) == [ok |-> FALSE, out |-> out]
Printed(out) == [ok |-> TRUE, out |-> out]

\* The body of `for step in steps`: four unwraps, two parses, then one line.
step_body(step) ==
    LET step_name == as_str(step.name)
        step_status == as_str(step.status)
        step_start == OffsetDateTime_parse(step.started_at)
        step_finish == OffsetDateTime_parse(step.completed_at)
    IN IF ~step_name.some THEN Panicked(<<>>)
       ELSE IF ~step_status.some THEN Panicked(<<>>)
       ELSE IF step.started_at.t # "str" THEN Panicked(<<>>)
       ELSE IF step.completed_at.t # "str" THEN Panicked(<<>>)
       ELSE IF ~step_start.ok THEN Panicked(<<>>)
       ELSE IF ~step_finish.ok THEN Panicked(<<>>)
       ELSE Printed(<<StepLine(step_name.s, step_status.s,
                               step_finish.unix - step_start.unix)>>)

RECURSIVE step_loop(_)
step_loop(steps) ==
    IF steps = <<>> THEN Printed(<<>>)
    ELSE LET r == step_body(Head(steps))
         IN IF ~r.ok THEN r
            ELSE LET rest == step_loop(Tail(steps))
                 IN [ok |-> rest.ok, out |-> r.out \o rest.out]

\* A job body that buffers its lines and prints them only when every step
\* of the job was formatted.
job_body_Buffered(job) ==
    LET job_name == as_str(job.name)
        steps == as_array(job.steps)
    IN IF ~job_name.some \/ ~steps.some THEN Panicked(<<>>)
       ELSE LET r == step_loop(steps.items)
            IN IF r.ok THEN Printed(<<JobLine(job_name.s)>> \o r.out) ELSE Panicked(<<>>)

\* The body of `for job in jobs`: the name is printed before the steps are
\* looked at.
job_body(job) ==
    LET job_name == as_str(job.name)
        steps == as_array(job.steps)
    IN IF ~job_name.some THEN Panicked(<<>>)
       ELSE IF ~steps.some THEN Panicked(<<JobLine(job_name.s)>>)
       ELSE LET r == step_loop(steps.items)
            IN [ok |-> r.ok, out |-> <<JobLine(job_name.s)>> \o r.out]

RECURSIVE job_loop(_)
job_loop(jobs) ==
    IF jobs = <<>> THEN Printed(<<>>)
    ELSE LET r == job_body(Head(jobs))
         IN IF ~r.ok THEN r
            ELSE LET rest == job_loop(Tail(jobs))
                 IN [ok |-> rest.ok, out |-> r.out \o rest.out]

\* display_job_steps(&jobs): the lines printed, and whether it returned
\* (ok) or panicked part-way.
display_job_steps(jobs) == job_loop(jobs)

\* ------------------------------------------------------------- responses

\* What the server answers to a request: the transport may fail, the body
\* may not be JSON, and `field` is body["workflow_runs"] or body["jobs"].
TransportError == [transport_ok |-> FALSE, is_json |-> FALSE, field |-> JNotArray]
NotJson == [transport_ok |-> TRUE, is_json |-> FALSE, field |-> JNotArray]
Body(field) == [transport_ok |-> TRUE, is_json |-> TRUE, field |-> field]

\* ------------------------------------------- retrieve_workflow_runs (body)

RECURSIVE Take(_, _)
Take(s, n) == IF n = 0 \/ s = <<>> THEN <<>> ELSE <<Head(s)>> \o Take(Tail(s), n - 1)

\* A lister without `.take(10)`: every entry is read.
collect_run_ids_NoTake(items) ==
    IF \E i \in 1..Len(items) : ~as_i64(items[i].id).some
    THEN [outcome |-> "panic", runs |-> <<>>]
    ELSE [outcome |-> "ok",
          runs |-> [i \in 1..Len(items) |-> to_string(as_i64(items[i].id).n)]]

\* A lister that skips the entries without an integer id (filter_map).
HasIntId(entry) == as_i64(entry.id).some
collect_run_ids_SkipBad(items) ==
    LET kept == SelectSeq(Take(items, TakeRuns), HasIntId)
    IN [outcome |-> "ok", runs |-> [i \in 1..Len(kept) |-> to_string(as_i64(kept[i].id).n)]]

\* .iter().take(10).map(id.as_i64().expect(..).to_string()).collect():
\* only the entries taken are looked at.
collect_run_ids(items) ==
    LET taken == Take(items, TakeRuns)
    IN IF \E i \in 1..Len(taken) : ~as_i64(taken[i].id).some
       THEN [outcome |-> "panic", runs |-> <<>>]
       ELSE [outcome |-> "ok",
             runs |-> [i \in 1..Len(taken) |-> to_string(as_i64(taken[i].id).n)]]

\* retrieve_workflow_runs after `.send()`: `?` on the transport and on the
\* JSON decoding, expect on the array, then the ids.
runs_of_response(resp) ==
    IF ~resp.transport_ok THEN [outcome |-> "err", runs |-> <<>>]
    ELSE IF ~resp.is_json THEN [outcome |-> "err", runs |-> <<>>]
    ELSE IF ~as_array(resp.field).some THEN [outcome |-> "panic", runs |-> <<>>]
    ELSE collect_run_ids(as_array(resp.field).items)

\* retrieve_run_jobs after `.send()`.
jobs_of_response(resp) ==
    IF ~resp.transport_ok THEN [outcome |-> "err", jobs |-> <<>>]
    ELSE IF ~resp.is_json THEN [outcome |-> "err", jobs |-> <<>>]
    ELSE IF ~as_array(resp.field).some THEN [outcome |-> "panic", jobs |-> <<>>]
    ELSE [outcome |-> "ok", jobs |-> as_array(resp.field).items]

\* ------------------------------------------------------- setup_api_client

\* HeaderValue parsing rejects control characters such as a line break.
ValidHeaderValue(text) == \A i \in 1..Len(text) : text[i] # "\n"

NoClient == [built |-> FALSE, authorization |-> <<>>, sensitive |-> FALSE,
             accept |-> "", user_agent |-> "", api_version |-> ""]

\* reqwest::Client::builder().default_headers(headers).build(): the four
\* default headers, the Authorization value marked sensitive.
build_client(token) ==
    [built |-> TRUE,
     authorization |-> <<"Bearer ">> \o token.value,
     sensitive |-> TRUE,
     accept |-> "application/vnd.github+json",
     user_agent |-> "action-hero/VERSION",
     api_version |-> "2022-11-28"]

\* A setup that reads the variable with unwrap_or_default: not set is empty.
setup_api_client_DefaultToken(token) ==
    IF ~ValidHeaderValue(<<"Bearer ">> \o token.value)
    THEN [outcome |-> "panic", client |-> NoClient]
    ELSE [outcome |-> "ok", client |-> build_client(token)]

\* A setup that also refuses an empty token.
setup_api_client_RejectEmpty(token) ==
    IF ~token.set \/ token.value = <<>> \/ ~ValidHeaderValue(<<"Bearer ">> \o token.value)
    THEN [outcome |-> "panic", client |-> NoClient]
    ELSE [outcome |-> "ok", client |-> build_client(token)]

\* setup_api_client(): expect on the variable being set, unwrap on the
\* Authorization value, then the four default headers.
setup_api_client(token) ==
    IF ~token.set THEN [outcome |-> "panic", client |-> NoClient]
    ELSE IF ~ValidHeaderValue(<<"Bearer ">> \o token.value)
    THEN [outcome |-> "panic", client |-> NoClient]
    ELSE [outcome |-> "ok", client |-> build_client(token)]

\* --------------------------------------------------------------- requests

NoApi == [owner |-> <<>>, repository |-> <<>>, workflow |-> ""]

\* GET /repos/{owner}/{repo}/actions/workflows/{workflow}/runs?per_page=10&page=1
RunsRequest(a) ==
    [kind |-> "runs", owner |-> a.owner, repository |-> a.repository,
     workflow |-> a.workflow, run_id |-> <<>>, query |-> <<PerPage, Page>>]

\* GET /repos/{owner}/{repo}/actions/runs/{run_id}/jobs
JobsRequest(a, id) ==
    [kind |-> "jobs", owner |-> a.owner, repository |-> a.repository,
     workflow |-> "", run_id |-> id, query |-> <<>>]

\* ------------------------------------------------------------------ state

VARIABLES
    argv,       \* the command line: what clap is given
    token,      \* GITHUB_TOKEN in the environment: set or not, and its text
    server,     \* what the server answers to the two requests
    pc,         \* the statement of main the process is at (or stopped at)
    process,    \* "running" or "exited"
    exit_code,  \* the exit code, once exited
    api,        \* the API struct's owner, repository and workflow
    client,     \* the reqwest client of the API struct
    requests,   \* every HTTP request sent, in order
    inflight,   \* the indices in `requests` of those not yet answered
    runs,       \* Vec<String> returned by retrieve_workflow_runs
    run_id,     \* the id picked from runs
    jobs,       \* Vec<Value> returned by retrieve_run_jobs
    stdout      \* the lines printed, in order

vars == <<argv, token, server, pc, process, exit_code, api, client, requests,
          inflight, runs, run_id, jobs, stdout>>

\* The process ends with `code`; nothing else changes.
Exit(code) == /\ process' = "exited"
              /\ exit_code' = code

\* ------------------------------------------------------------------- main

\* Command::new("hero")...get_matches(): --help and --version print and
\* exit 0, a missing required argument is a usage error (exit 2).
ParseArgs ==
    /\ process = "running" /\ pc = "get_matches"
    /\ IF argv.kind \in {"help", "version"} THEN Exit(ExitOk) /\ pc' = pc
       ELSE IF argv.kind = "usage" THEN Exit(ExitUsage) /\ pc' = pc
       ELSE pc' = "split_once" /\ UNCHANGED <<process, exit_code>>
    /\ UNCHANGED <<argv, token, server, api, client, requests, inflight, runs,
                   run_id, jobs, stdout>>

\* repository.split_once('/').expect(..), then the workflow argument.
SplitRepository ==
    /\ process = "running" /\ pc = "split_once"
    /\ LET r == split_once(argv.repository)
       IN IF ~r.some
          THEN Exit(ExitPanic) /\ UNCHANGED <<pc, api>>
          ELSE /\ api' = [owner |-> r.owner, repository |-> r.repository,
                          workflow |-> argv.workflow]
               /\ pc' = "setup_api_client"
               /\ UNCHANGED <<process, exit_code>>
    /\ UNCHANGED <<argv, token, server, client, requests, inflight, runs,
                   run_id, jobs, stdout>>

\* let client = setup_api_client()?;
SetupApiClient ==
    /\ process = "running" /\ pc = "setup_api_client"
    /\ LET r == setup_api_client(token)
       IN IF r.outcome = "panic"
          THEN Exit(ExitPanic) /\ UNCHANGED <<pc, client>>
          ELSE /\ client' = r.client
               /\ pc' = "retrieve_workflow_runs"
               /\ UNCHANGED <<process, exit_code>>
    /\ UNCHANGED <<argv, token, server, api, requests, inflight, runs, run_id,
                   jobs, stdout>>

\* retrieve_workflow_runs: api.client.get(&url).send()
SendRunsRequest ==
    /\ process = "running" /\ pc = "retrieve_workflow_runs"
    /\ requests' = Append(requests, RunsRequest(api))
    /\ inflight' = inflight \cup {Len(requests) + 1}
    /\ pc' = "await_runs"
    /\ UNCHANGED <<argv, token, server, process, exit_code, api, client, runs,
                   run_id, jobs, stdout>>

\* A lister that sends the request once more when the first attempt fails.
ReceiveRunsResponse_Retry ==
    /\ process = "running" /\ pc = "await_runs"
    /\ LET r == runs_of_response(server.runs)
       IN IF r.outcome = "ok"
          THEN /\ runs' = r.runs
               /\ pc' = "print_runs"
               /\ inflight' = inflight \ {Len(requests)}
               /\ UNCHANGED <<process, exit_code, requests>>
          ELSE IF r.outcome = "err" /\ Len(requests) < 2
          THEN /\ requests' = Append(requests, RunsRequest(api))
               /\ inflight' = {Len(requests) + 1}
               /\ UNCHANGED <<process, exit_code, pc, runs>>
          ELSE /\ Exit(IF r.outcome = "err" THEN ExitErr ELSE ExitPanic)
               /\ inflight' = inflight \ {Len(requests)}
               /\ UNCHANGED <<pc, runs, requests>>
    /\ UNCHANGED <<argv, token, server, api, client, run_id, jobs, stdout>>

\* retrieve_workflow_runs: the awaited response, decoded; `?` in main.
ReceiveRunsResponse ==
    /\ process = "running" /\ pc = "await_runs"
    /\ inflight' = inflight \ {Len(requests)}
    /\ LET r == runs_of_response(server.runs)
       IN IF r.outcome = "ok"
          THEN /\ runs' = r.runs
               /\ pc' = "print_runs"
               /\ UNCHANGED <<process, exit_code>>
          ELSE /\ Exit(IF r.outcome = "err" THEN ExitErr ELSE ExitPanic)
               /\ UNCHANGED <<pc, runs>>
    /\ UNCHANGED <<argv, token, server, api, client, requests, run_id, jobs,
                   stdout>>

\* A main that picks the last run of the list (runs.last()).
PickFirstRun_Last ==
    /\ process = "running" /\ pc = "print_runs"
    /\ stdout' = Append(stdout, RunsLine(runs))
    /\ IF runs = <<>>
       THEN Exit(ExitPanic) /\ UNCHANGED <<pc, run_id>>
       ELSE /\ run_id' = runs[Len(runs)]
            /\ pc' = "retrieve_run_jobs"
            /\ UNCHANGED <<process, exit_code>>
    /\ UNCHANGED <<argv, token, server, api, client, requests, inflight, runs,
                   jobs>>

\* println!("runs: {:#?}", runs); runs.first().unwrap()
PickFirstRun ==
    /\ process = "running" /\ pc = "print_runs"
    /\ stdout' = Append(stdout, RunsLine(runs))
    /\ IF runs = <<>>
       THEN Exit(ExitPanic) /\ UNCHANGED <<pc, run_id>>
       ELSE /\ run_id' = Head(runs)
            /\ pc' = "retrieve_run_jobs"
            /\ UNCHANGED <<process, exit_code>>
    /\ UNCHANGED <<argv, token, server, api, client, requests, inflight, runs,
                   jobs>>

\* retrieve_run_jobs: api.client.get(url).send()
SendJobsRequest ==
    /\ process = "running" /\ pc = "retrieve_run_jobs"
    /\ requests' = Append(requests, JobsRequest(api, run_id))
    /\ inflight' = inflight \cup {Len(requests) + 1}
    /\ pc' = "await_jobs"
    /\ UNCHANGED <<argv, token, server, process, exit_code, api, client, runs,
                   run_id, jobs, stdout>>

\* retrieve_run_jobs: the awaited response, decoded; `?` in main.
ReceiveJobsResponse ==
    /\ process = "running" /\ pc = "await_jobs"
    /\ inflight' = inflight \ {Len(requests)}
    /\ LET r == jobs_of_response(server.jobs)
       IN IF r.outcome = "ok"
          THEN /\ jobs' = r.jobs
               /\ pc' = "display_job_steps"
               /\ UNCHANGED <<process, exit_code>>
          ELSE /\ Exit(IF r.outcome = "err" THEN ExitErr ELSE ExitPanic)
               /\ UNCHANGED <<pc, jobs>>
    /\ UNCHANGED <<argv, token, server, api, client, requests, runs, run_id,
                   stdout>>

\* A main that returns Ok(()) whether or not the report was printed whole.
DisplayJobSteps_IgnoresPanic ==
    /\ process = "running" /\ pc = "display_job_steps"
    /\ stdout' = stdout \o display_job_steps(jobs).out
    /\ Exit(ExitOk) /\ pc' = "return"
    /\ UNCHANGED <<argv, token, server, api, client, requests, inflight, runs,
                   run_id, jobs>>

\* display_job_steps(&jobs); Ok(())
DisplayJobSteps ==
    /\ process = "running" /\ pc = "display_job_steps"
    /\ LET r == display_job_steps(jobs)
       IN /\ stdout' = stdout \o r.out
          /\ IF r.ok THEN Exit(ExitOk) /\ pc' = "return"
             ELSE Exit(ExitPanic) /\ pc' = pc
    /\ UNCHANGED <<argv, token, server, api, client, requests, inflight, runs,
                   run_id, jobs>>

\* ----------------------------------------------------------------- inputs

\* The characters a repository argument is drawn from.
ArgChars == {"o", "r", "/"}

\* Every text of at most n characters of S.
Texts(S, n) == UNION {[1..k -> S] : k \in 0..n}

\* The command lines: --help, --version, a missing positional argument, or
\* a repository argument and a workflow.
Argvs ==
    {[kind |-> k, repository |-> <<>>, workflow |-> ""] : k \in {"help", "version", "usage"}}
    \cup {[kind |-> "run", repository |-> r, workflow |-> "check.yaml"] :
             r \in Texts(ArgChars, MaxArgLen)}

\* GITHUB_TOKEN: not set, set to the empty text, to a token, or to a text
\* holding a line break.
Unset == [set |-> FALSE, value |-> <<>>]
Tokens == {Unset} \cup {[set |-> TRUE, value |-> v] : v \in {<<>>, <<"t">>, <<"t", "\n">>}}

\* The id of the i-th run of a listing, newest first.
RunId(i, seed) == seed - 7 * i
RunSeeds == {40, 120035}
\* An id field of the wrong type: absent (null), or a string.
BadIds == {JNull, JStr("42")}

\* A listing of n runs whose entry `bad` (0: none) has the id field `kind`.
RunsFixture(n, bad, kind, seed) ==
    Body(JArray([i \in 1..n |-> [id |-> IF i = bad THEN kind ELSE JInt(RunId(i, seed))]]))

ListerRunsPool ==
    {TransportError, NotJson, Body(JNotArray)}
    \cup {RunsFixture(n, bad, kind, seed) :
             n \in 0..MaxRuns, bad \in 0..MaxRuns, kind \in BadIds, seed \in RunSeeds}

MainRunsPool ==
    {TransportError, NotJson, Body(JNotArray)}
    \cup {RunsFixture(n, bad, JNull, 40) : n \in 0..2, bad \in 0..2}

JobNames == <<"build", "test", "deploy">>
StepNames == <<"checkout", "compile", "upload", "cleanup">>
Statuses == <<"completed", "skipped">>
Nth(names, i) == names[((i - 1) % Len(names)) + 1]

\* What may be wrong with a step (or, for "reversed", merely unusual: the
\* step completes before it starts) and with a job.
StepFaults == {"status_null", "status_int", "name_null", "finish_null", "start_bad",
               "reversed"}
JobFaults == {"job_name_null", "steps_not_array"}

\* Step k of job j starts at 2024-01-0jT(k-1):00:00Z and completes
\* 5k seconds, j-1 minutes and k-1 hours later, written at offset -(k-1)h.
StartOf(j, k) == JTime(j, k - 1, 0, 0, 0)
FinishOf(j, k) == JTime(j, k - 1, j - 1, 5 * k, 1 - k)

StepFixture(j, k, fault) ==
    [name |-> IF fault = "name_null" THEN JNull ELSE JStr(Nth(StepNames, k)),
     status |-> CASE fault = "status_null" -> JNull
                  [] fault = "status_int" -> JInt(1)
                  [] OTHER -> JStr(Nth(Statuses, j + k)),
     started_at |-> CASE fault = "start_bad" -> JTime(j, 24, 0, 0, 0)
                      [] fault = "reversed" -> FinishOf(j, k)
                      [] OTHER -> StartOf(j, k),
     completed_at |-> CASE fault = "finish_null" -> JNoTime
                        [] fault = "reversed" -> StartOf(j, k)
                        [] OTHER -> FinishOf(j, k)]

\* The fault the set `faults` of <<job, step, fault>> puts at a position.
FaultAt(faults, j, k) ==
    IF \E f \in faults : f[1] = j /\ f[2] = k
    THEN (CHOOSE f \in faults : f[1] = j /\ f[2] = k)[3]
    ELSE "none"

\* The jobs array with shape[j] steps in job j and the given faults; a
\* fault at step 0 is one of the job itself.
JobsFixture(shape, faults) ==
    [j \in 1..Len(shape) |->
        [name |-> IF FaultAt(faults, j, 0) = "job_name_null" THEN JNull
                  ELSE JStr(Nth(JobNames, j)),
         steps |-> IF FaultAt(faults, j, 0) = "steps_not_array" THEN JNotArray
                   ELSE JArray([k \in 1..shape[j] |->
                                   StepFixture(j, k, FaultAt(faults, j, k))])]]

Shapes == Texts(0..MaxSteps, MaxJobs)

\* Position p comes before position q in the order the reporter reads.
Earlier(p, q) == p[1] < q[1] \/ (p[1] = q[1] /\ p[2] < q[2])

\* The faults a shape admits: none, any one, or a step without status
\* followed, later in the response, by a step or a job without a name.
FaultsOf(shape) ==
    LET at == {<<j, 0, f>> : j \in 1..Len(shape), f \in JobFaults}
              \cup {<<j, k, f>> : j \in 1..Len(shape), k \in 1..MaxSteps, f \in StepFaults}
        fits == {f \in at : f[2] <= shape[f[1]]}
        first == {f \in fits : f[3] = "status_null"}
        second == {f \in fits : f[3] \in {"name_null", "job_name_null"}}
    IN {{}} \cup {{f} : f \in fits}
       \cup {{p[1], p[2]} : p \in {q \in first \X second : Earlier(q[1], q[2])}}

ReportJobsPool ==
    {TransportError, NotJson, Body(JNotArray)}
    \cup UNION {{Body(JArray(JobsFixture(shape, faults))) : faults \in FaultsOf(shape)} :
                   shape \in Shapes}

MainJobsPool ==
    {TransportError, NotJson, Body(JNotArray)}
    \cup {Body(JArray(JobsFixture(shape, {}))) : shape \in {<<>>, <<2>>, <<1, 1>>}}
    \cup {Body(JArray(JobsFixture(<<2>>, {f}))) :
             f \in {<<1, 2, "status_null">>, <<1, 1, "start_bad">>, <<1, 0, "job_name_null">>}}

\* ---------------------------------------------------------- specification

\* The process as started: nothing parsed, sent or printed yet.
Started ==
    /\ pc = "get_matches"
    /\ process = "running"
    /\ exit_code = -1
    /\ api = NoApi
    /\ client = NoClient
    /\ requests = <<>>
    /\ inflight = {}
    /\ runs = <<>>
    /\ run_id = <<>>
    /\ jobs = <<>>
    /\ stdout = <<>>

\* The program run on every command line and token, against a few answers.
Init ==
    /\ argv \in Argvs
    /\ token \in Tokens
    /\ server \in [runs : MainRunsPool, jobs : MainJobsPool]
    /\ Started

Next ==
    \/ ParseArgs
    \/ SplitRepository
    \/ SetupApiClient
    \/ SendRunsRequest
    \/ ReceiveRunsResponse
    \/ PickFirstRun
    \/ SendJobsRequest
    \/ ReceiveJobsResponse
    \/ DisplayJobSteps

Spec == Init /\ [][Next]_vars

\* A well-formed command line and token, for the specifications that vary
\* the server's answers only.
GoodArgv == [kind |-> "run", repository |-> <<"o", "/", "r">>, workflow |-> "check.yaml"]
GoodToken == [set |-> TRUE, value |-> <<"t">>]

\* The program run against every run listing of up to MaxRuns entries.
InitLister ==
    /\ argv = GoodArgv
    /\ token = GoodToken
    /\ server \in [runs : ListerRunsPool, jobs : MainJobsPool]
    /\ Started

SpecLister == InitLister /\ [][Next]_vars

\* The program run against every jobs fixture of up to MaxJobs jobs of up
\* to MaxSteps steps.
InitReport ==
    /\ argv = GoodArgv
    /\ token = GoodToken
    /\ server \in [runs : {RunsFixture(2, 0, JNull, 40)}, jobs : ReportJobsPool]
    /\ Started

SpecReport == InitReport /\ [][Next]_vars

\* ================================================================ claims

\* Shorthands of the properties below.
Exited == process = "exited"
Slashes(text) == Cardinality({i \in 1..Len(text) : text[i] = "/"})
BeforeSplit == pc \in {"get_matches", "split_once"}
BeforeClient == pc \in {"get_matches", "split_once", "setup_api_client"}
BeforeRuns == pc \in {"get_matches", "split_once", "setup_api_client",
                      "retrieve_workflow_runs", "await_runs"}
BeforeReport == BeforeRuns \/ pc \in {"print_runs", "retrieve_run_jobs", "await_jobs"}
Smaller(a, b) == IF a < b THEN a ELSE b

\* The number a decimal text denotes (the inverse of i64's to_string).
DigitValue(c) == CHOOSE d \in 0..9 : DigitChars[d + 1] = c
RECURSIVE NaturalValue(_)
NaturalValue(text) ==
    IF text = <<>> THEN 0
    ELSE 10 * NaturalValue(SubSeq(text, 1, Len(text) - 1)) + DigitValue(text[Len(text)])
DecimalValue(text) ==
    IF text # <<>> /\ Head(text) = "-" THEN 0 - NaturalValue(Tail(text))
    ELSE NaturalValue(text)

\* The run collection the server answers with (empty when it is no array).
RunEntries == server.runs.field.items
RunsIsArray == server.runs.transport_ok /\ server.runs.is_json /\ server.runs.field.is_array
GoodRunEntry(i) == RunEntries[i].id.t = "int"

\* --------------------------------------------------------------------- C1
\* C1: a repository argument with exactly one '/' resolves to the text
\* before and the text after it; one with no '/' or with more than one is
\* a configuration error: the process stops at the split, non-zero, with no
\* client built and no request sent.
C1_RepositoryNeedsExactlyOneSlash ==
    argv.kind = "run" =>
        LET text == argv.repository
        IN IF Slashes(text) = 1
           THEN LET i == CHOOSE k \in 1..Len(text) : text[k] = "/"
                IN /\ ~(Exited /\ pc = "split_once")
                   /\ ~BeforeSplit => /\ api.owner = SubSeq(text, 1, i - 1)
                                      /\ api.repository = SubSeq(text, i + 1, Len(text))
           ELSE /\ BeforeSplit
                /\ ~client.built
                /\ requests = <<>>
                /\ Exited => exit_code # 0

\* --------------------------------------------------------------------- C2
\* C2: of a listing of N well-formed entries the lister returns the decimal
\* forms of the ids of the first min(N, 10), in order; with N = 0 the list
\* is empty and the process panics picking the first run, the jobs request
\* never sent.
WellFormedRuns == RunsIsArray /\ \A i \in 1..Len(RunEntries) : GoodRunEntry(i)

C2_ListerReturnsFirstTen ==
    WellFormedRuns =>
        /\ ~(Exited /\ pc = "await_runs")
        /\ ~BeforeRuns =>
              /\ Len(runs) = Smaller(Len(RunEntries), 10)
              /\ \A i \in 1..Len(runs) : DecimalValue(runs[i]) = RunEntries[i].id.n
        /\ Len(RunEntries) = 0 =>
              /\ BeforeRuns \/ pc = "print_runs"
              /\ Len(requests) <= 1
              /\ runs = <<>>
              /\ Exited => exit_code = 101

C2_Witness ==
    /\ WellFormedRuns
    /\ Len(RunEntries) > 10
    /\ pc = "await_jobs"
    /\ Len(runs) = 10

\* --------------------------------------------------------------------- C8
\* C8 as stated: a malformed id on ANY entry of the run collection makes
\* the lister fail, whatever the entry's position.
C8_AnyMalformedEntryIsFatal ==
    (RunsIsArray /\ \E i \in 1..Len(RunEntries) : ~GoodRunEntry(i)) =>
        /\ BeforeRuns
        /\ runs = <<>>

\* C8 amended: a malformed id among the first 10 entries makes the lister
\* panic (exit 101, no list, no jobs request); a malformed id on a later
\* entry is never looked at and the first 10 ids are returned.
C8_MalformedAmongFirstTenIsFatal ==
    RunsIsArray =>
        IF \E i \in 1..Smaller(Len(RunEntries), 10) : ~GoodRunEntry(i)
        THEN /\ BeforeRuns
             /\ runs = <<>>
             /\ Len(requests) <= 1
             /\ stdout = <<>>
             /\ Exited => exit_code = 101
        ELSE /\ ~(Exited /\ pc = "await_runs")
             /\ ~BeforeRuns =>
                   /\ Len(runs) = Smaller(Len(RunEntries), 10)
                   /\ \A i \in 1..Len(runs) : DecimalValue(runs[i]) = RunEntries[i].id.n

C8_Witness ==
    /\ RunsIsArray
    /\ Len(RunEntries) >= 10
    /\ ~GoodRunEntry(10)
    /\ \A i \in 1..9 : GoodRunEntry(i)
    /\ Exited
    /\ pc = "await_runs"

\* --------------------------------------------------------------------- C3
\* C3 as stated: with GITHUB_TOKEN not set the process ends with a
\* non-zero code and sends no request, whatever the command line is.
C3_NoTokenExitsNonZero ==
    ~token.set =>
        /\ requests = <<>>
        /\ inflight = {}
        /\ Exited => exit_code # 0

\* C3 amended: with GITHUB_TOKEN not set the process never gets past
\* setup_api_client: no client is built and no request is sent; it ends
\* with a non-zero code unless the command line asks for --help or
\* --version, which end it with code 0 before the token is read.
C3_NoTokenNoRequest ==
    ~token.set =>
        /\ BeforeClient
        /\ ~client.built
        /\ requests = <<>>
        /\ inflight = {}
        /\ stdout = <<>>
        /\ Exited => (exit_code = 0 <=> argv.kind \in {"help", "version"})
        /\ ~Exited => ENABLED Next

C3_Witness ==
    /\ ~token.set
    /\ Exited
    /\ pc = "setup_api_client"
    /\ exit_code = 101

\* --------------------------------------------------------------------- C9
EmptyToken == token.set /\ token.value = <<>>

\* C9 as stated: a token that is set but empty is rejected like an absent
\* one: no client is built and no request is sent.
C9_EmptyTokenRejected ==
    EmptyToken =>
        /\ ~client.built
        /\ requests = <<>>

\* C9 amended: a token that is set but empty is accepted: setup_api_client
\* does not fail, the client is built with the Authorization value
\* "Bearer " and the run-listing request is sent with it.
C9_EmptyTokenAccepted ==
    (EmptyToken /\ ~BeforeSplit) =>
        /\ ~(Exited /\ pc = "setup_api_client")
        /\ pc # "setup_api_client" =>
              /\ client.built
              /\ client.authorization = <<"Bearer ">>
        /\ pc \notin {"setup_api_client", "retrieve_workflow_runs"} =>
              /\ requests # <<>>
              /\ requests[1].kind = "runs"

C9_Witness ==
    /\ EmptyToken
    /\ client.built
    /\ Len(requests) = 2
    /\ Exited

\* --------------------------------------------------------------------- C5
\* C5: at most one request is in flight; the run listing is sent first and
\* once, the jobs request once and only after the listing was answered and
\* gave a run id, which it carries.
C5_OneRequestAtATime ==
    /\ Cardinality(inflight) <= 1
    /\ inflight \subseteq 1..Len(requests)
    /\ Len(requests) <= 2
    /\ Len(requests) >= 1 => requests[1].kind = "runs"
    /\ Len(requests) = 2 =>
          /\ requests[2].kind = "jobs"
          /\ 1 \notin inflight
          /\ ~BeforeRuns
          /\ runs # <<>>
          /\ requests[2].run_id \in {runs[i] : i \in 1..Len(runs)}

C5_Witness ==
    /\ Len(requests) = 2
    /\ inflight = {2}

\* -------------------------------------------------------------------- C10
\* C10: the jobs request carries the first id the lister returned, which is
\* the id of the first entry of the server's answer; the list of ids is the
\* first line printed, already printed when the jobs request is sent, and
\* no job or step line precedes it.
C10_FirstRunIsFetched ==
    /\ Len(requests) >= 2 =>
          /\ requests[2].run_id = runs[1]
          /\ DecimalValue(requests[2].run_id) = RunEntries[1].id.n
          /\ stdout # <<>>
          /\ stdout[1].kind = "runs"
          /\ stdout[1].ids = runs
    /\ \A i \in 1..Len(stdout) :
          stdout[i].kind \in {"job", "step"} => i > 1 /\ stdout[1].kind = "runs"
    /\ \A i \in 2..Len(stdout) : stdout[i].kind # "runs"

C10_Witness ==
    /\ Len(requests) = 2
    /\ Len(runs) = 2
    /\ Len(stdout) > 2

\* ------------------------------------------------------- the report, stated

\* The jobs collection the server answers with (empty when it is no array).
JobEntries == server.jobs.field.items
JobsIsArray == server.jobs.transport_ok /\ server.jobs.is_json /\ server.jobs.field.is_array
StepsOf(j) == JobEntries[j].steps.items

\* An RFC 3339 text of January 2024, and the instant it denotes in seconds
\* since 2024-01-01T00:00:00Z.
ValidTime(v) ==
    /\ v.t = "str"
    /\ 1 <= v.day /\ v.day <= 31
    /\ 0 <= v.hour /\ v.hour < 24
    /\ 0 <= v.minute /\ v.minute < 60
    /\ 0 <= v.second /\ v.second < 60
    /\ -24 < v.offset /\ v.offset < 24
UtcSeconds(v) == v.second + 60 * (v.minute + 60 * (v.hour - v.offset + 24 * (v.day - 1)))

WellFormedStep(st) ==
    /\ st.name.t = "str"
    /\ st.status.t = "str"
    /\ ValidTime(st.started_at)
    /\ ValidTime(st.completed_at)
HasNameAndSteps(j) == JobEntries[j].name.t = "str" /\ JobEntries[j].steps.is_array
WellFormedJob(j) ==
    /\ HasNameAndSteps(j)
    /\ \A k \in 1..Len(StepsOf(j)) : WellFormedStep(StepsOf(j)[k])

\* The number of lines the jobs before job j take in a full report.
RECURSIVE LinesBefore(_)
LinesBefore(j) == IF j <= 1 THEN 0 ELSE LinesBefore(j - 1) + 1 + Len(StepsOf(j - 1))
\* Where job j's name line stands on the console: after the runs line and
\* the lines of the jobs before it.
JobLineAt(j) == 1 + LinesBefore(j) + 1

IsJobLine(line, job) == line.kind = "job" /\ line.name = job.name.s
IsStepLine(line, st) ==
    /\ line.kind = "step"
    /\ line.name = st.name.s
    /\ line.status = st.status.s
    /\ line.duration = UtcSeconds(st.completed_at) - UtcSeconds(st.started_at)

\* display_job_steps has run: to its end, or to a panic.
Reported == pc = "return" \/ (pc = "display_job_steps" /\ Exited)

\* --------------------------------------------------------------------- C7
\* C7: of a jobs response whose jobs and steps all carry name, status and
\* valid timestamps, the report is, in the response's order, one line per
\* job with its name, each followed by one line per step with its name, its
\* status and completed_at - started_at (5 seconds from 00:00:00Z to
\* 00:00:05Z); nothing is dropped, duplicated or reordered.
C7_ReportReproducesFixture ==
    (JobsIsArray /\ Reported /\ \A j \in 1..Len(JobEntries) : WellFormedJob(j)) =>
        /\ pc = "return"
        /\ exit_code = 0
        /\ jobs = JobEntries
        /\ Len(stdout) = 1 + LinesBefore(Len(JobEntries) + 1)
        /\ \A j \in 1..Len(JobEntries) :
              /\ IsJobLine(stdout[JobLineAt(j)], JobEntries[j])
              /\ \A k \in 1..Len(StepsOf(j)) :
                    /\ IsStepLine(stdout[JobLineAt(j) + k], StepsOf(j)[k])
                    /\ (/\ StepsOf(j)[k].started_at = JTime(1, 0, 0, 0, 0)
                        /\ StepsOf(j)[k].completed_at = JTime(1, 0, 0, 5, 0))
                       => stdout[JobLineAt(j) + k].duration = 5

C7_Witness ==
    /\ JobsIsArray
    /\ pc = "return"
    /\ Len(JobEntries) = 2
    /\ Len(StepsOf(1)) = 2
    /\ Len(StepsOf(2)) = 2
    /\ stdout[3].duration = 5
    /\ stdout[7].duration < 0

\* --------------------------------------------------------------------- C4
\* Job j is reached with a name and steps, and its first faulty step is
\* step k, which lacks a string status.
StatusFaultAt(j, k) ==
    /\ \A i \in 1..(j - 1) : WellFormedJob(i)
    /\ HasNameAndSteps(j)
    /\ \A m \in 1..(k - 1) : WellFormedStep(StepsOf(j)[m])
    /\ StepsOf(j)[k].status.t # "str"

\* C4 as stated: when a step of a job lacks a string status the reporter
\* fails and nothing has been printed for that job, neither its name line
\* nor the lines of the steps before the faulty one.
C4_NothingPrintedForFaultyJob ==
    (JobsIsArray /\ Reported) =>
        \A j \in 1..Len(JobEntries) : \A k \in 1..Len(StepsOf(j)) :
            StatusFaultAt(j, k) =>
                /\ Exited /\ exit_code # 0
                /\ Len(stdout) = 1 + LinesBefore(j)

\* C4 amended: when a step of a job lacks a string status the reporter
\* panics at that step, having printed the job's name line and the lines
\* of the steps before it, and prints nothing for that step or after it.
C4_ReportStopsAtFaultyStep ==
    (JobsIsArray /\ Reported) =>
        \A j \in 1..Len(JobEntries) : \A k \in 1..Len(StepsOf(j)) :
            StatusFaultAt(j, k) =>
                /\ Exited /\ exit_code = 101 /\ pc = "display_job_steps"
                /\ Len(stdout) = 1 + LinesBefore(j) + k
                /\ IsJobLine(stdout[JobLineAt(j)], JobEntries[j])
                /\ \A m \in 1..(k - 1) : IsStepLine(stdout[JobLineAt(j) + m], StepsOf(j)[m])

C4_Witness ==
    /\ JobsIsArray /\ Reported
    /\ Len(JobEntries) = 2
    /\ Len(StepsOf(2)) = 2
    /\ StatusFaultAt(2, 2)
    /\ Len(stdout) > 3

\* --------------------------------------------------------------------- C6
\* The inputs that make a stage fail.
HelpOrVersion == argv.kind \in {"help", "version"}
ConfigError ==
    \/ argv.kind = "usage"
    \/ argv.kind = "run" /\ Slashes(argv.repository) = 0
    \/ ~token.set
    \/ \E i \in 1..Len(token.value) : token.value[i] = "\n"
RunsError ==
    \/ ~RunsIsArray
    \/ RunEntries = <<>>
    \/ \E i \in 1..Smaller(Len(RunEntries), 10) : ~GoodRunEntry(i)
JobsError == ~JobsIsArray \/ \E j \in 1..Len(JobEntries) : ~WellFormedJob(j)

\* Every stage ran and every line of the report is on the console.
ReportComplete ==
    /\ pc = "return"
    /\ Len(requests) = 2
    /\ inflight = {}
    /\ Len(stdout) = 1 + LinesBefore(Len(JobEntries) + 1)

\* C6 as stated: the exit code is 0 if and only if every stage completed
\* and the whole report was printed.
C6_ExitZeroIffReportPrinted ==
    Exited => (exit_code = 0 <=> ReportComplete)

\* C6 amended: the exit code is 0 if and only if every stage completed and
\* the whole report was printed, or the command line asked for --help or
\* --version (which end the process at once, nothing sent or reported); an
\* error at a stage ends the process with a non-zero code at that stage,
\* with no later request and no later output, and nothing runs after exit.
C6_FailFast ==
    Exited =>
        /\ exit_code = 0 <=> (ReportComplete \/ HelpOrVersion)
        /\ ~ENABLED Next
        /\ HelpOrVersion => pc = "get_matches" /\ requests = <<>> /\ stdout = <<>>
        /\ ~HelpOrVersion =>
              /\ ConfigError =>
                    /\ exit_code # 0
                    /\ BeforeClient /\ ~client.built
                    /\ requests = <<>> /\ stdout = <<>>
              /\ (~ConfigError /\ RunsError) =>
                    /\ exit_code # 0
                    /\ pc \in {"await_runs", "print_runs"}
                    /\ Len(requests) = 1 /\ Len(stdout) <= 1
              /\ (~ConfigError /\ ~RunsError /\ JobsError) =>
                    /\ exit_code # 0
                    /\ pc \in {"await_jobs", "display_job_steps"}
                    /\ Len(requests) = 2
                    /\ Len(stdout) <= 1 + LinesBefore(Len(JobEntries) + 1)
                    /\ \A i \in 2..Len(stdout) : stdout[i].kind \in {"job", "step"}
              /\ (~ConfigError /\ ~RunsError /\ ~JobsError) => ReportComplete

C6_Witness ==
    /\ Exited
    /\ exit_code = 0
    /\ ReportComplete
    /\ Len(stdout) > 3

====
